---- MODULE Spec2Model ----
(***************************************************************************)
(* A model of src/pong.py: the Paddle and Ball objects, the AI predictor   *)
(* and the frame loop of Game.                                             *)
(*                                                                         *)
(* Numbers.  pygame.Rect holds integers (pixels).  Elapsed time is the     *)
(* integer number of milliseconds returned by Clock.tick; the code's       *)
(* dt = ms / 1000.0.  pygame.Vector2 components and the AI target are      *)
(* floats: they are held here in fixed point, in 1/FP of a pixel (per      *)
(* second), and int() is truncation toward zero.                           *)
(*                                                                         *)
(* Specifications.  Spec is a run of the game from Game.__init__, one      *)
(* step per statement of Game.run / Game._update.  SpecMain is the same    *)
(* run with a KeyboardInterrupt possible at every step of the loop.        *)
(* SpecPaddle, SpecBall and SpecPredict call the methods of one object     *)
(* directly.  SpecSeek is the AI paddle following a fixed target, one      *)
(* move_towards call per frame, under weak fairness of the frame step.     *)
(***************************************************************************)
EXTENDS Integers, Sequences, FiniteSets, TLC

\* ------------------------------------------------------------- constants
WIDTH == 800
HEIGHT == 600
PADDLE_WIDTH == 12
PADDLE_HEIGHT == 100
BALL_SIZE == 12
PADDLE_MARGIN == 24
\* dt = clock.tick(FPS) / 1000.0
MS == 1000
FPS == 60
\* fixed-point denominator of the float quantities (Vector2, ai_target_y)
FP == 1000
\* Ball(..., speed=420)
BASE_SPEED == 420
PLAYER_SPEED == 520
AI_SPEED == 500
\* spin = offset * 220
SPIN == 220
\* vel.y is kept in [-520, 520], vel.x in [-720, 720]
MAX_VY == 520
MAX_VX == 720
\* random.uniform(-0.35, 0.35), in 1/FP
MAX_ANGLE == 350
AI_REACTION_MS == 140
AI_ERROR_MARGIN == 32

\* ------------------------------------------------------------ arithmetic
Abs(n) == IF n >= 0 THEN n ELSE -n
Max2(a, b) == IF a >= b THEN a ELSE b
Min2(a, b) == IF a <= b THEN a ELSE b
Sign(n) == IF n > 0 THEN 1 ELSE IF n < 0 THEN -1 ELSE 0
\* Python's int(n / d) for d > 0: truncation toward zero
Trunc(n, d) == IF n >= 0 THEN n \div d ELSE -((-n) \div d)
\* floor(n * FP / d) for d > 0, without leaving 32 bits
ScaledDiv(n, d) == (n \div d) * FP + ((n % d) * FP) \div d

\* ------------------------------------------------------------------ Rect
\* a rect is a record with x, y (top-left); w and h are given by the owner
Right(r, w) == r.x + w
Bottom(r, h) == r.y + h
CenterX(r, w) == r.x + w \div 2
CenterY(r, h) == r.y + h \div 2

BallRight(b) == Right(b, BALL_SIZE)
BallBottom(b) == Bottom(b, BALL_SIZE)
BallCenterX(b) == CenterX(b, BALL_SIZE)
BallCenterY(b) == CenterY(b, BALL_SIZE)
PaddleRight(p) == Right(p, PADDLE_WIDTH)
PaddleBottom(p) == Bottom(p, PADDLE_HEIGHT)
PaddleCenterX(p) == CenterX(p, PADDLE_WIDTH)
PaddleCenterY(p) == CenterY(p, PADDLE_HEIGHT)

\* pygame.Rect.colliderect: strict overlap on both axes
colliderect(b, p) ==
    /\ b.x < PaddleRight(p)
    /\ BallRight(b) > p.x
    /\ b.y < PaddleBottom(p)
    /\ BallBottom(b) > p.y

\* ---------------------------------------------------------------- Paddle
Paddle_init(x, y, speed) == [x |-> x, y |-> y, speed |-> speed]

Paddle_clamp_no_bottom(p) == [p EXCEPT !.y = Max2(0, p.y)]

\* Paddle._clamp
Paddle_clamp(p) ==
    LET top == Max2(0, p.y)
        bottom == Min2(HEIGHT, top + PADDLE_HEIGHT)
    IN [p EXCEPT !.y = bottom - PADDLE_HEIGHT]

Paddle_move_towards_no_dead_zone(p, target_y, dt) ==
    LET center_y == PaddleCenterY(p)
        direction == IF target_y > center_y * FP THEN 1 ELSE -1
        dy == direction * p.speed * dt
    IN Paddle_clamp([p EXCEPT !.y = p.y + Trunc(dy, MS)])

\* Paddle.move_towards; target_y in 1/FP px, dt in ms
Paddle_move_towards(p, target_y, dt) ==
    LET center_y == PaddleCenterY(p)
        direction == IF target_y > center_y * FP THEN 1 ELSE -1
        dy == direction * p.speed * dt
    IN IF Abs(target_y - center_y * FP) <= 1 * FP
       THEN p
       ELSE Paddle_clamp([p EXCEPT !.y = p.y + Trunc(dy, MS)])

\* Paddle.move_input
Paddle_move_input(p, up, down, dt) ==
    LET dy == IF up /\ ~down THEN -(p.speed * dt)
              ELSE IF down /\ ~up THEN p.speed * dt
              ELSE 0
    IN Paddle_clamp([p EXCEPT !.y = p.y + Trunc(dy, MS)])

\* ------------------------------------------------------------------ Ball
\* a ball is [x, y, vx, vy]: rect top-left in px, vel in 1/FP px per second
CenterLeft == WIDTH \div 2 - BALL_SIZE \div 2
CenterTop == HEIGHT \div 2 - BALL_SIZE \div 2

Ball_reset_keeps_speed(b, direction, angle) ==
    [x |-> CenterLeft, y |-> CenterTop,
     vx |-> direction * Abs(b.vx),
     vy |-> BASE_SPEED * angle]

\* Ball.reset; angle is random.uniform(-0.35, 0.35) in 1/FP
Ball_reset(b, direction, angle) ==
    [x |-> CenterLeft, y |-> CenterTop,
     vx |-> direction * BASE_SPEED * FP,
     vy |-> BASE_SPEED * angle]

Ball_update_no_bottom_snap(b, dt) ==
    LET x1 == b.x + Trunc(b.vx * dt, MS * FP)
        y1 == b.y + Trunc(b.vy * dt, MS * FP)
    IN IF y1 <= 0
       THEN [x |-> x1, y |-> 0, vx |-> b.vx, vy |-> -b.vy]
       ELSE IF y1 + BALL_SIZE >= HEIGHT
       THEN [x |-> x1, y |-> y1, vx |-> b.vx, vy |-> -b.vy]
       ELSE [x |-> x1, y |-> y1, vx |-> b.vx, vy |-> b.vy]

Ball_update_double_step(b, dt) ==
    LET x1 == b.x + 2 * Trunc(b.vx * dt, MS * FP)
        y1 == b.y + 2 * Trunc(b.vy * dt, MS * FP)
    IN IF y1 <= 0
       THEN [x |-> x1, y |-> 0, vx |-> b.vx, vy |-> -b.vy]
       ELSE IF y1 + BALL_SIZE >= HEIGHT
       THEN [x |-> x1, y |-> HEIGHT - BALL_SIZE, vx |-> b.vx, vy |-> -b.vy]
       ELSE [x |-> x1, y |-> y1, vx |-> b.vx, vy |-> b.vy]

\* Ball.update; dt in ms
Ball_update(b, dt) ==
    LET x1 == b.x + Trunc(b.vx * dt, MS * FP)
        y1 == b.y + Trunc(b.vy * dt, MS * FP)
    IN IF y1 <= 0
       THEN [x |-> x1, y |-> 0, vx |-> b.vx, vy |-> -b.vy]
       ELSE IF y1 + BALL_SIZE >= HEIGHT
       THEN [x |-> x1, y |-> HEIGHT - BALL_SIZE, vx |-> b.vx, vy |-> -b.vy]
       ELSE [x |-> x1, y |-> y1, vx |-> b.vx, vy |-> b.vy]

ClampTo(v, lo, hi) == Max2(Min2(v, hi), lo)

Ball_collide_paddle_wrong_edge(b, p) ==
    IF ~colliderect(b, p)
    THEN b
    ELSE LET x1 == IF b.vx < 0 THEN p.x ELSE PaddleRight(p) - BALL_SIZE
             offset == BallCenterY(b) - PaddleCenterY(p)
             spin == (offset * SPIN * FP) \div (PADDLE_HEIGHT \div 2)
         IN [x |-> x1, y |-> b.y,
             vx |-> ClampTo(Trunc(-b.vx * 104, 100), -MAX_VX * FP, MAX_VX * FP),
             vy |-> ClampTo(b.vy + spin, -MAX_VY * FP, MAX_VY * FP)]

Ball_collide_paddle_no_cap(b, p) ==
    IF ~colliderect(b, p)
    THEN b
    ELSE LET x1 == IF b.vx < 0 THEN PaddleRight(p) ELSE p.x - BALL_SIZE
             offset == BallCenterY(b) - PaddleCenterY(p)
             spin == (offset * SPIN * FP) \div (PADDLE_HEIGHT \div 2)
         IN [x |-> x1, y |-> b.y,
             vx |-> Trunc(-b.vx * 104, 100),
             vy |-> b.vy + spin]

Ball_collide_paddle_no_speedup(b, p) ==
    IF ~colliderect(b, p)
    THEN b
    ELSE LET x1 == IF b.vx < 0 THEN PaddleRight(p) ELSE p.x - BALL_SIZE
             offset == BallCenterY(b) - PaddleCenterY(p)
             spin == (offset * SPIN * FP) \div (PADDLE_HEIGHT \div 2)
         IN [x |-> x1, y |-> b.y,
             vx |-> -b.vx,
             vy |-> ClampTo(b.vy + spin, -MAX_VY * FP, MAX_VY * FP)]

\* Ball.collide_paddle.  offset = (ball.centery - paddle.centery) / 50 and
\* spin = offset * 220, so spin is 4.4 px/s per pixel of offset; the speed-up
\* vel.x *= 1.04 is taken in fixed point.
Ball_collide_paddle(b, p) ==
    IF ~colliderect(b, p)
    THEN b
    ELSE LET x1 == IF b.vx < 0 THEN PaddleRight(p) ELSE p.x - BALL_SIZE
             offset == BallCenterY(b) - PaddleCenterY(p)
             spin == (offset * SPIN * FP) \div (PADDLE_HEIGHT \div 2)
         IN [x |-> x1, y |-> b.y,
             vx |-> ClampTo(Trunc(-b.vx * 104, 100), -MAX_VX * FP, MAX_VX * FP),
             vy |-> ClampTo(b.vy + spin, -MAX_VY * FP, MAX_VY * FP)]

\* ------------------------------------------------------------- predictor
\* Game._predict_ball_y_at_x works on floats; results here are in 1/FP px.
\* time_to_x = (x - pos.x) / vel.x is positive iff vel.x is not zero and
\* x - pos.x has the sign of vel.x
TimeToXPositive(b, x) == b.vx # 0 /\ (x - BallCenterX(b)) * Sign(b.vx) > 0

\* simulated_y = pos.y + vel.y * time_to_x, for a positive time_to_x
SimulatedY(b, x) ==
    BallCenterY(b) * FP
      + ScaledDiv(b.vy * Abs(x - BallCenterX(b)), Abs(b.vx))

predict_ball_y_at_x_no_reflect(b, x) ==
    IF b.vx = 0 THEN BallCenterY(b) * FP
    ELSE IF ~TimeToXPositive(b, x) THEN BallCenterY(b) * FP
    ELSE SimulatedY(b, x) % (HEIGHT * FP)

\* Game._predict_ball_y_at_x
predict_ball_y_at_x(b, x) ==
    LET period == 2 * HEIGHT * FP
        mod == SimulatedY(b, x) % period
    IN IF b.vx = 0 THEN BallCenterY(b) * FP
       ELSE IF ~TimeToXPositive(b, x) THEN BallCenterY(b) * FP
       ELSE IF mod <= HEIGHT * FP THEN mod ELSE period - mod

\* ------------------------------------------------------------- the state
VARIABLES
    pc,           \* position of the program in main / Game.run / Game._update
    rate,         \* ms per frame of the machine the run is on
    dt,           \* elapsed ms of the current frame (clock.tick, clock.get_time)
    frames,       \* number of frames started
    player,       \* Game.player (left paddle)
    ai,           \* Game.ai (right paddle)
    ball,         \* Game.ball
    score,        \* Game.score
    ai_timer,     \* Game.ai_timer, ms
    ai_target_y,  \* Game.ai_target_y, 1/FP px
    call,         \* the last method call made on an object under test
    pred,         \* a prediction taken by the AI, followed along the flight
    pygame_up,    \* pygame is initialised (pygame.init) and not yet quit
    exit_code     \* << >> while the process runs, <<code>> once it has ended

vars == <<pc, rate, dt, frames, player, ai, ball, score, ai_timer, ai_target_y,
          call, pred, pygame_up, exit_code>>

\* ---------------------------------------------------------------- bounds
\* frames played in one run of the game
MaxFrames == 43
\* frame times (ms): a run renders at a steady rate, the 60 FPS cap of
\* clock.tick(FPS) or a slower one, and clock.tick returns it every frame
RateSet == {17, 100, 200}
\* launch angles drawn by random.uniform(-0.35, 0.35), in 1/FP
AngleSet == {-MAX_ANGLE, 0, MAX_ANGLE}
\* noise drawn by random.uniform(-32, 32), in 1/FP px
NoiseSet == {-AI_ERROR_MARGIN * FP, 0, AI_ERROR_MARGIN * FP}
\* pressed state of (K_w, K_s)
KeySet == {<<FALSE, FALSE>>, <<TRUE, FALSE>>, <<FALSE, TRUE>>}

NoCall == [op |-> "none"]
NoPred == [op |-> "none"]

\* ------------------------------------------------------- Game.__init__
StartY == HEIGHT \div 2 - PADDLE_HEIGHT \div 2
NewPlayer == Paddle_init(PADDLE_MARGIN, StartY, PLAYER_SPEED)
NewAI == Paddle_init(WIDTH - PADDLE_MARGIN - PADDLE_WIDTH, StartY, AI_SPEED)
\* Ball.__init__: the rect at the centre, vel = (0, 0), then reset()
Ball_init(direction, angle) ==
    Ball_reset([x |-> CenterLeft, y |-> CenterTop, vx |-> 0, vy |-> 0],
          direction, angle)

Init ==
    /\ pc = "tick"
    /\ rate \in RateSet
    /\ dt = 0
    /\ frames = 0
    /\ player = NewPlayer
    /\ ai = NewAI
    /\ \E d \in {-1, 1}, a \in AngleSet : ball = Ball_init(d, a)
    /\ score = [left |-> 0, right |-> 0]
    /\ ai_timer = 0
    /\ ai_target_y = (HEIGHT \div 2) * FP
    /\ call = NoCall
    /\ pred = NoPred
    /\ pygame_up = TRUE
    /\ exit_code = << >>

\* ------------------------------------------------------------- Game.run
\* dt = self.clock.tick(FPS) / 1000.0
Tick ==
    /\ pc = "tick"
    /\ frames < MaxFrames
    /\ dt' = rate
    /\ frames' = frames + 1
    /\ pc' = "events"
    /\ UNCHANGED <<rate, player, ai, ball, score, ai_timer, ai_target_y, call, pred,
                   pygame_up, exit_code>>

\* Game._handle_events: False on a QUIT event or an ESC key-down
handle_events ==
    /\ pc = "events"
    /\ \E quit \in BOOLEAN : pc' = IF quit THEN "returned" ELSE "input"
    /\ UNCHANGED <<rate, dt, frames, player, ai, ball, score, ai_timer, ai_target_y,
                   call, pred, pygame_up, exit_code>>

\* Game._update: self.player.move_input(keys[K_w], keys[K_s], dt)
PlayerInput ==
    /\ pc = "input"
    /\ \E k \in KeySet : player' = Paddle_move_input(player, k[1], k[2], dt)
    /\ pc' = "ball"
    /\ UNCHANGED <<rate, dt, frames, ai, ball, score, ai_timer, ai_target_y, call, pred,
                   pygame_up, exit_code>>

\* Game._update: self.ball.update(dt)
BallMove ==
    /\ pc = "ball"
    /\ ball' = Ball_update(ball, dt)
    /\ pc' = "collide_player"
    /\ UNCHANGED <<rate, dt, frames, player, ai, score, ai_timer, ai_target_y, call, pred,
                   pygame_up, exit_code>>

\* Game._update: self.ball.collide_paddle(self.player)
CollidePlayer ==
    /\ pc = "collide_player"
    /\ ball' = Ball_collide_paddle(ball, player)
    /\ pc' = "collide_ai"
    /\ UNCHANGED <<rate, dt, frames, player, ai, score, ai_timer, ai_target_y, call, pred,
                   pygame_up, exit_code>>

\* Game._update: self.ball.collide_paddle(self.ai)
CollideAI ==
    /\ pc = "collide_ai"
    /\ ball' = Ball_collide_paddle(ball, ai)
    /\ pc' = "score"
    /\ UNCHANGED <<rate, dt, frames, player, ai, score, ai_timer, ai_target_y, call, pred,
                   pygame_up, exit_code>>

ScoringNoReset ==
    /\ pc = "score"
    /\ \/ /\ BallRight(ball) < 0
          /\ score' = [score EXCEPT !.right = @ + 1]
          /\ ball' = [ball EXCEPT !.vx = Abs(@)]
       \/ /\ ~(BallRight(ball) < 0)
          /\ ball.x > WIDTH
          /\ score' = [score EXCEPT !.left = @ + 1]
          /\ ball' = [ball EXCEPT !.vx = -Abs(@)]
       \/ /\ ~(BallRight(ball) < 0)
          /\ ~(ball.x > WIDTH)
          /\ UNCHANGED <<ball, score>>
    /\ pc' = "ai"
    /\ UNCHANGED <<rate, dt, frames, player, ai, ai_timer, ai_target_y, call, pred,
                   pygame_up, exit_code>>

ScoringSwapped ==
    /\ pc = "score"
    /\ \/ /\ BallRight(ball) < 0
          /\ score' = [score EXCEPT !.left = @ + 1]
          /\ \E a \in AngleSet : ball' = Ball_reset(ball, -1, a)
       \/ /\ ~(BallRight(ball) < 0)
          /\ ball.x > WIDTH
          /\ score' = [score EXCEPT !.right = @ + 1]
          /\ \E a \in AngleSet : ball' = Ball_reset(ball, 1, a)
       \/ /\ ~(BallRight(ball) < 0)
          /\ ~(ball.x > WIDTH)
          /\ UNCHANGED <<ball, score>>
    /\ pc' = "ai"
    /\ UNCHANGED <<rate, dt, frames, player, ai, ai_timer, ai_target_y, call, pred,
                   pygame_up, exit_code>>

\* Game._update: the scoring block
Scoring ==
    /\ pc = "score"
    /\ \/ /\ BallRight(ball) < 0
          /\ score' = [score EXCEPT !.right = @ + 1]
          /\ \E a \in AngleSet : ball' = Ball_reset(ball, 1, a)
       \/ /\ ~(BallRight(ball) < 0)
          /\ ball.x > WIDTH
          /\ score' = [score EXCEPT !.left = @ + 1]
          /\ \E a \in AngleSet : ball' = Ball_reset(ball, -1, a)
       \/ /\ ~(BallRight(ball) < 0)
          /\ ~(ball.x > WIDTH)
          /\ UNCHANGED <<ball, score>>
    /\ pc' = "ai"
    /\ UNCHANGED <<rate, dt, frames, player, ai, ai_timer, ai_target_y, call, pred,
                   pygame_up, exit_code>>

update_ai_every_frame ==
    /\ pc = "ai"
    /\ ai_timer' = 0
    /\ IF ball.vx > 0
       THEN \E noise \in NoiseSet :
              ai_target_y' =
                Max2(0, Min2(HEIGHT * FP,
                     predict_ball_y_at_x(ball, PaddleCenterX(ai)) + noise))
       ELSE ai_target_y' = (HEIGHT \div 2) * FP
    /\ ai' = Paddle_move_towards(ai, ai_target_y', dt)
    /\ pc' = "draw"
    /\ UNCHANGED <<rate, dt, frames, player, ball, score, call, pred,
                   pygame_up, exit_code>>

update_ai_no_clamp ==
    /\ pc = "ai"
    /\ LET ball_moving_to_ai == ball.vx > 0
           timer == ai_timer + dt
       IN IF timer >= AI_REACTION_MS
          THEN /\ ai_timer' = 0
               /\ IF ball_moving_to_ai
                  THEN \E noise \in NoiseSet :
                         ai_target_y' =
                           predict_ball_y_at_x(ball, PaddleCenterX(ai)) + noise
                  ELSE ai_target_y' = (HEIGHT \div 2) * FP
          ELSE /\ ai_timer' = timer
               /\ ai_target_y' = ai_target_y
    /\ ai' = Paddle_move_towards(ai, ai_target_y', dt)
    /\ pc' = "draw"
    /\ UNCHANGED <<rate, dt, frames, player, ball, score, call, pred,
                   pygame_up, exit_code>>

\* Game._update_ai
update_ai ==
    /\ pc = "ai"
    /\ LET ball_moving_to_ai == ball.vx > 0
           timer == ai_timer + dt
       IN IF timer >= AI_REACTION_MS
          THEN /\ ai_timer' = 0
               /\ IF ball_moving_to_ai
                  THEN \E noise \in NoiseSet :
                         ai_target_y' =
                           Max2(0, Min2(HEIGHT * FP,
                                predict_ball_y_at_x(ball, PaddleCenterX(ai)) + noise))
                  ELSE ai_target_y' = (HEIGHT \div 2) * FP
          ELSE /\ ai_timer' = timer
               /\ ai_target_y' = ai_target_y
    /\ ai' = Paddle_move_towards(ai, ai_target_y', dt)
    /\ pc' = "draw"
    /\ UNCHANGED <<rate, dt, frames, player, ball, score, call, pred,
                   pygame_up, exit_code>>

\* Game._draw: no game state is written
draw ==
    /\ pc = "draw"
    /\ pc' = "tick"
    /\ UNCHANGED <<rate, dt, frames, player, ai, ball, score, ai_timer, ai_target_y,
                   call, pred, pygame_up, exit_code>>

\* main: game.run() has returned, main returns and the interpreter ends the
\* process with code 0; no statement on this path calls pygame.quit()
MainReturn ==
    /\ pc = "returned"
    /\ pc' = "exited"
    /\ exit_code' = <<0>>
    /\ UNCHANGED <<rate, dt, frames, player, ai, ball, score, ai_timer, ai_target_y,
                   call, pred, pygame_up>>

run_checks_quit_last ==
    \/ /\ pc = "tick"
       /\ frames < MaxFrames
       /\ dt' = rate
       /\ frames' = frames + 1
       /\ pc' = "input"
       /\ UNCHANGED <<rate, player, ai, ball, score, ai_timer, ai_target_y, call, pred,
                      pygame_up, exit_code>>
    \/ PlayerInput
    \/ BallMove
    \/ CollidePlayer
    \/ CollideAI
    \/ Scoring
    \/ update_ai
    \/ /\ pc = "draw"
       /\ pc' = "events"
       /\ UNCHANGED <<rate, dt, frames, player, ai, ball, score, ai_timer,
                      ai_target_y, call, pred, pygame_up, exit_code>>
    \/ /\ pc = "events"
       /\ \E quit \in BOOLEAN : pc' = IF quit THEN "returned" ELSE "tick"
       /\ UNCHANGED <<rate, dt, frames, player, ai, ball, score, ai_timer,
                      ai_target_y, call, pred, pygame_up, exit_code>>
    \/ MainReturn

Next ==
    \/ Tick
    \/ handle_events
    \/ PlayerInput
    \/ BallMove
    \/ CollidePlayer
    \/ CollideAI
    \/ Scoring
    \/ update_ai
    \/ draw
    \/ MainReturn

Spec == Init /\ [][Next]_vars

\* ------------------------------------------- main under KeyboardInterrupt
\* positions inside Game.run
LoopPcs == {"tick", "events", "input", "ball", "collide_player", "collide_ai",
            "score", "ai", "draw"}

\* Ctrl-C while Game.run executes: KeyboardInterrupt is raised at the
\* current statement and unwinds run and main up to the except clause
KeyboardInterrupt ==
    /\ pc \in LoopPcs
    /\ pc' = "interrupted"
    /\ UNCHANGED <<rate, dt, frames, player, ai, ball, score, ai_timer, ai_target_y,
                   call, pred, pygame_up, exit_code>>

\* except KeyboardInterrupt: pygame.quit(); sys.exit(0)
ExceptKeyboardInterrupt ==
    /\ pc = "interrupted"
    /\ pygame_up' = FALSE
    /\ exit_code' = <<0>>
    /\ pc' = "exited"
    /\ UNCHANGED <<rate, dt, frames, player, ai, ball, score, ai_timer, ai_target_y,
                   call, pred>>

NextMain ==
    \/ Next
    \/ KeyboardInterrupt
    \/ ExceptKeyboardInterrupt

SpecMain == Init /\ [][NextMain]_vars

\* ------------------------------------------------- claims on the game run
\* the paddle the collide step at this position is called with
CollideArg == IF pc = "collide_player" THEN player ELSE ai
AtCollide == pc \in {"collide_player", "collide_ai"}
Outside(b) == BallRight(b) < 0 \/ b.x > WIDTH
Total(s) == s.left + s.right

\* C3: a collide_paddle call on intersecting rectangles flips the sign of
\* vel.x and leaves the ball flush against the paddle (left edge on the
\* paddle's right edge when it was moving left, right edge on the paddle's
\* left edge when it was moving right), so that the rectangles no longer
\* intersect and a repeated call changes nothing; a call on rectangles that
\* do not intersect changes nothing.
C3_CollisionResolved ==
    [][AtCollide =>
        IF colliderect(ball, CollideArg)
        THEN /\ ball'.vx # 0
             /\ Sign(ball'.vx) = -Sign(ball.vx)
             /\ ball.vx < 0 => ball'.x = PaddleRight(CollideArg)
             /\ ball.vx > 0 => BallRight(ball') = CollideArg.x
             /\ ~colliderect(ball', CollideArg)
             /\ Ball_collide_paddle(ball', CollideArg) = ball'
        ELSE ball' = ball]_vars

\* the player's paddle has just returned the ball
C3_Witness ==
    /\ pc = "collide_ai"
    /\ ball.x = PaddleRight(player)
    /\ ball.vx > BASE_SPEED * FP
    /\ ball.y + BALL_SIZE > player.y
    /\ ball.y < PaddleBottom(player)

C5_ScoringOutcome ==
    [][pc = "score" =>
        /\ BallRight(ball) < 0 =>
             /\ score'.right = score.right + 1
             /\ score'.left = score.left
             /\ BallCenterX(ball') = WIDTH \div 2
             /\ BallCenterY(ball') = HEIGHT \div 2
             /\ ball'.vx > 0
        /\ ball.x > WIDTH =>
             /\ score'.left = score.left + 1
             /\ score'.right = score.right
             /\ BallCenterX(ball') = WIDTH \div 2
             /\ BallCenterY(ball') = HEIGHT \div 2
             /\ ball'.vx < 0]_vars

\* both sides have scored, the last point just now
C5_Witness ==
    /\ pc = "ai"
    /\ score.left >= 1
    /\ score.right >= 1
    /\ ball.x = CenterLeft
    /\ ball.y = CenterTop

\* C6: no step lowers a score; only the scoring block changes the score, it
\* runs once per frame and adds 1 to the total exactly when the ball is
\* fully outside the screen horizontally, and 0 otherwise; a counted ball is
\* back inside the screen when the block is left, so that the same exit is
\* not seen by the next frame.
C6_ScoreCounting ==
    [][/\ score'.left >= score.left
       /\ score'.right >= score.right
       /\ pc # "score" => score' = score
       /\ pc = "score" =>
            /\ Total(score') = Total(score) + (IF Outside(ball) THEN 1 ELSE 0)
            /\ Outside(ball) => ~Outside(ball')]_vars

\* two exits have been counted, in two frames
C6_Witness ==
    /\ pc = "ai"
    /\ Total(score) >= 2
    /\ ~Outside(ball)

\* C11: ai_target_y and ai_timer are written by _update_ai only; a frame
\* whose accumulated timer (ai_timer plus the frame's ms) is below the
\* reaction time of 140 ms keeps ai_target_y and keeps the sum as the timer,
\* a frame whose accumulated timer has reached it sets the timer back to 0;
\* in either frame the AI paddle makes its move_towards step to the target
\* the frame ends with.
C11_AIRateLimit ==
    [][/\ pc # "ai" => UNCHANGED <<ai_target_y, ai_timer, ai>>
       /\ pc = "ai" =>
            /\ ai_timer + dt < AI_REACTION_MS =>
                 /\ ai_target_y' = ai_target_y
                 /\ ai_timer' = ai_timer + dt
            /\ ai_timer + dt >= AI_REACTION_MS => ai_timer' = 0
            /\ ai' = Paddle_move_towards(ai, ai_target_y', dt)]_vars

\* a frame between two recomputes: the timer is running, the target is the
\* one set by an earlier recompute and the paddle has moved off its start
C11_Witness ==
    /\ pc = "draw"
    /\ ai_timer > 0
    /\ ai_timer < AI_REACTION_MS
    /\ ai_target_y # (HEIGHT \div 2) * FP
    /\ ai.y # StartY

\* the frame's accumulated timer has reached the reaction time
Recompute == pc = "ai" /\ ai_timer + dt >= AI_REACTION_MS

\* C12: a recompute with the ball moving to the AI sets ai_target_y to the
\* predicted y plus a noise of at most 32 px, clamped to [0, HEIGHT]; a
\* recompute with the ball moving away sets it to HEIGHT // 2; the target
\* lies in [0, HEIGHT] in every state.
C12_AITarget ==
    [][/\ 0 <= ai_target_y /\ ai_target_y <= HEIGHT * FP
       /\ 0 <= ai_target_y' /\ ai_target_y' <= HEIGHT * FP
       /\ (Recompute /\ ball.vx > 0) =>
            LET predicted_y == predict_ball_y_at_x(ball, PaddleCenterX(ai))
            IN /\ ai_target_y' >=
                    ClampTo(predicted_y - AI_ERROR_MARGIN * FP, 0, HEIGHT * FP)
               /\ ai_target_y' <=
                    ClampTo(predicted_y + AI_ERROR_MARGIN * FP, 0, HEIGHT * FP)
       /\ (Recompute /\ ball.vx <= 0) => ai_target_y' = (HEIGHT \div 2) * FP]_vars

\* a recompute has just put the target at the bottom of the screen, where
\* the prediction plus the noise lay beyond it
C12_Witness ==
    /\ pc = "draw"
    /\ ai_timer = 0
    /\ ball.vx > 0
    /\ ai_target_y = HEIGHT * FP
    /\ predict_ball_y_at_x(ball, PaddleCenterX(ai)) < HEIGHT * FP

\* C13: when the process has ended, by a quit request or by a
\* KeyboardInterrupt during the run loop, pygame.quit() has been executed
\* and the exit code is 0.
C13_TeardownOnExit ==
    pc = "exited" => (~pygame_up /\ exit_code = <<0>>)

\* the state of the game: ball, paddles, score and AI state
game == <<player, ai, ball, score, ai_timer, ai_target_y>>
\* positions inside Game._update
UpdatePcs == {"input", "ball", "collide_player", "collide_ai", "score", "ai"}

\* C14: an iteration of Game.run makes its quit check once, right after the
\* tick and before _update and _draw: the check is entered from the tick
\* only, _update from the check only, _draw from the end of _update only and
\* the next tick from _draw only.  The check that observes a quit request
\* changes no game state and leaves the loop; after it no step of _update or
\* _draw and no further iteration occurs, and the game state stays as it is.
C14_QuitOrdering ==
    [][/\ pc' = "events" => (pc = "tick" /\ frames' = frames + 1)
       /\ pc = "events" => (frames' = frames /\ pc' \in {"input", "returned"})
       /\ pc' = "input" => pc = "events"
       /\ pc' = "draw" => pc = "ai"
       /\ pc' = "tick" => pc = "draw"
       /\ (pc = "events" /\ pc' = "returned") => UNCHANGED <<game, frames>>
       /\ pc \in {"returned", "exited"} =>
            /\ pc' = "exited"
            /\ UNCHANGED <<game, frames>>]_vars

\* a quit request was observed in an iteration that follows played frames and
\* the process has ended
C14_Witness ==
    /\ pc = "exited"
    /\ frames > 2
    /\ ball # Ball_init(Sign(ball.vx), 0)
    /\ ai.y # StartY

Idle ==
    /\ pc = "unit"
    /\ dt = 0
    /\ frames = 0
    /\ score = [left |-> 0, right |-> 0]
    /\ ai_timer = 0
    /\ ai_target_y = (HEIGHT \div 2) * FP
    /\ pygame_up = TRUE
    /\ exit_code = << >>

\* elapsed times (ms) handed to a method: the 60 FPS tick (16 or 17 ms), a
\* slow frame and a stalled one
UnitDtSet == {16, 17, 100, 1000}

\* ------------------------------------------------------------ SpecPaddle
PaddleOf(who) == IF who = "player" THEN player ELSE ai

\* target_y arguments (1/FP px) for a paddle whose centre is at center_y
TargetOffsets == {-2 * FP, -FP - 1, -FP, -1, 0, 1, FP, FP + 1, 2 * FP}
TargetSet(center_y) ==
    {center_y * FP + o : o \in TargetOffsets}
      \cup {-100 * FP, 0, (HEIGHT \div 2) * FP, HEIGHT * FP, (HEIGHT + 100) * FP}

InitPaddle ==
    /\ Idle
    /\ rate = 0
    /\ player = NewPlayer
    /\ ai = NewAI
    /\ ball = Ball_init(1, 0)
    /\ \E w \in {"player", "ai"} : call = [op |-> "new", who |-> w]
    /\ pred = NoPred

\* paddle.move_input(up, down, dt) on the paddle under test
CallMoveInput ==
    /\ call.op \in {"new", "move_input", "move_towards"}
    /\ \E up \in BOOLEAN, down \in BOOLEAN, d \in UnitDtSet :
         LET p == PaddleOf(call.who)
             q == Paddle_move_input(p, up, down, d)
         IN /\ player' = IF call.who = "player" THEN q ELSE player
            /\ ai' = IF call.who = "ai" THEN q ELSE ai
            /\ call' = [op |-> "move_input", who |-> call.who, up |-> up,
                        down |-> down, dt |-> d, before |-> p]
    /\ UNCHANGED <<pc, rate, dt, frames, ball, score, ai_timer, ai_target_y, pred,
                   pygame_up, exit_code>>

\* paddle.move_towards(target_y, dt) on the paddle under test
CallMoveTowards ==
    /\ call.op \in {"new", "move_input", "move_towards"}
    /\ \E d \in UnitDtSet :
         LET p == PaddleOf(call.who)
         IN \E t \in TargetSet(PaddleCenterY(p)) :
              LET q == Paddle_move_towards(p, t, d)
              IN /\ player' = IF call.who = "player" THEN q ELSE player
                 /\ ai' = IF call.who = "ai" THEN q ELSE ai
                 /\ call' = [op |-> "move_towards", who |-> call.who,
                             target |-> t, dt |-> d, before |-> p]
    /\ UNCHANGED <<pc, rate, dt, frames, ball, score, ai_timer, ai_target_y, pred,
                   pygame_up, exit_code>>

NextPaddle ==
    \/ CallMoveInput
    \/ CallMoveTowards

SpecPaddle == InitPaddle /\ [][NextPaddle]_vars

\* C1: from the initial position, after any sequence of move_input and
\* move_towards calls the paddle lies within the screen vertically:
\* 0 <= top and bottom <= HEIGHT.
C1_PaddleInBounds ==
    /\ 0 <= player.y
    /\ PaddleBottom(player) <= HEIGHT
    /\ 0 <= ai.y
    /\ PaddleBottom(ai) <= HEIGHT

\* a move that would have left the screen at the bottom, and was clamped
C1_Witness ==
    /\ call.op = "move_input"
    /\ call.down
    /\ ~call.up
    /\ PaddleBottom(call.before) + Trunc(call.before.speed * call.dt, MS) > HEIGHT
    /\ PaddleBottom(PaddleOf(call.who)) = HEIGHT

\* C10: a move_towards call whose target is within 1 px of the paddle's
\* vertical centre leaves the paddle where it was.
C10_DeadZone ==
    (/\ call.op = "move_towards"
     /\ Abs(call.target - PaddleCenterY(call.before) * FP) <= 1 * FP)
    => PaddleOf(call.who) = call.before

\* a call exactly 1 px off the centre, with time to move in
C10_Witness ==
    /\ call.op = "move_towards"
    /\ Abs(call.target - PaddleCenterY(call.before) * FP) = 1 * FP
    /\ call.dt >= 16
    /\ PaddleOf(call.who) = call.before

\* C16: move_input with both keys or with neither leaves the paddle where it
\* was; with exactly one key the paddle ends at its old y moved by speed * dt
\* (up: smaller y, down: larger y) and clamped to the screen.
C16_MoveInput ==
    call.op = "move_input" =>
        LET p == PaddleOf(call.who)
            b == call.before
            top == (HEIGHT - PADDLE_HEIGHT) * MS
        IN /\ call.up = call.down => p = b
           /\ (call.up /\ ~call.down) =>
                p.y * MS = ClampTo(b.y * MS - b.speed * call.dt, 0, top)
           /\ (call.down /\ ~call.up) =>
                p.y * MS = ClampTo(b.y * MS + b.speed * call.dt, 0, top)

\* -------------------------------------------------------------- SpecSeek
\* The AI paddle follows a target that stays where it is: Game._update_ai
\* calls ai.move_towards(ai_target_y, dt) once per frame, and the run loop
\* keeps producing frames.
\* frame times (ms) of a run at the 60 FPS cap
SeekRateSet == {16, 17}
\* tops of the paddle when the target is set
SeekStartSet == {0, 100, StartY, 373, HEIGHT - PADDLE_HEIGHT}
\* targets (1/FP px): the edges, the centre, and values between
SeekTargetSet == {0, 153500, (HEIGHT \div 2) * FP, 304 * FP, 447250, HEIGHT * FP}

InitSeek ==
    /\ pc = "unit"
    /\ rate \in SeekRateSet
    /\ dt = 0
    /\ frames = 0
    /\ player = NewPlayer
    /\ \E y \in SeekStartSet : ai = [NewAI EXCEPT !.y = y]
    /\ ball = Ball_init(-1, 0)
    /\ score = [left |-> 0, right |-> 0]
    /\ ai_timer = 0
    /\ ai_target_y \in SeekTargetSet
    /\ call = NoCall
    /\ pred = NoPred
    /\ pygame_up = TRUE
    /\ exit_code = << >>

\* one frame: self.ai.move_towards(self.ai_target_y, dt)
SeekFrame ==
    /\ ai' = Paddle_move_towards(ai, ai_target_y, rate)
    /\ UNCHANGED <<pc, rate, dt, frames, player, ball, score, ai_timer, ai_target_y,
                   call, pred, pygame_up, exit_code>>

SpecSeek == InitSeek /\ [][SeekFrame]_vars /\ WF_vars(SeekFrame)

\* the paddle is at a position the next frame's move_towards keeps
Settled == Paddle_move_towards(ai, ai_target_y, rate) = ai

\* C17: with the target held fixed and move_towards called every frame at
\* the 60 FPS step, the AI paddle eventually reaches a position it keeps in
\* all later frames.
C17_NoOscillation == <>[]Settled

\* -------------------------------------------------------------- SpecBall
\* calls made on the ball in one run of SpecBall
MaxCalls == 2

\* ball states handed to the methods: in and flush against both paddle columns
\* and at the centre; on, next to and away from the walls; after a serve and
\* after a hit and at the cap; slow, served and fastest vertical velocities
BallInputs ==
    [x : {PADDLE_MARGIN + 6, PADDLE_MARGIN + PADDLE_WIDTH, CenterLeft,
          WIDTH - PADDLE_MARGIN - PADDLE_WIDTH - BALL_SIZE,
          WIDTH - PADDLE_MARGIN - PADDLE_WIDTH - 6},
     y : {0, 2, CenterTop, HEIGHT - BALL_SIZE - 2, HEIGHT - BALL_SIZE},
     vx : {-MAX_VX * FP, -(BASE_SPEED * 104 * FP) \div 100, BASE_SPEED * FP,
           MAX_VX * FP},
     vy : {-MAX_VY * FP, -BASE_SPEED * MAX_ANGLE, -30800, 0, 30800,
           BASE_SPEED * MAX_ANGLE, MAX_VY * FP}]

\* paddles handed to collide_paddle
PaddleInputs ==
    {[NewPlayer EXCEPT !.y = y] : y \in {0, StartY, HEIGHT - PADDLE_HEIGHT}}
      \cup {[NewAI EXCEPT !.y = y] : y \in {0, StartY, HEIGHT - PADDLE_HEIGHT}}

InitBall ==
    /\ Idle
    /\ rate = 0
    /\ player = NewPlayer
    /\ ai = NewAI
    /\ ball \in BallInputs
    /\ call = [op |-> "new", n |-> 0]
    /\ pred = NoPred

\* ball.update(dt)
CallUpdate ==
    /\ call.op \in {"new", "update", "collide_paddle", "reset"}
    /\ call.n < MaxCalls
    /\ \E d \in UnitDtSet :
         /\ ball' = Ball_update(ball, d)
         /\ call' = [op |-> "update", n |-> call.n + 1, dt |-> d, before |-> ball]
    /\ UNCHANGED <<pc, rate, dt, frames, player, ai, score, ai_timer, ai_target_y,
                   pred, pygame_up, exit_code>>

\* ball.collide_paddle(paddle)
CallCollidePaddle ==
    /\ call.op \in {"new", "update", "collide_paddle", "reset"}
    /\ call.n < MaxCalls
    /\ \E p \in PaddleInputs :
         /\ ball' = Ball_collide_paddle(ball, p)
         /\ call' = [op |-> "collide_paddle", n |-> call.n + 1, paddle |-> p,
                     before |-> ball]
    /\ UNCHANGED <<pc, rate, dt, frames, player, ai, score, ai_timer, ai_target_y,
                   pred, pygame_up, exit_code>>

\* ball.reset(direction)
CallReset ==
    /\ call.op \in {"new", "update", "collide_paddle", "reset"}
    /\ call.n < MaxCalls
    /\ \E d \in {-1, 1}, a \in AngleSet :
         /\ ball' = Ball_reset(ball, d, a)
         /\ call' = [op |-> "reset", n |-> call.n + 1, direction |-> d,
                     before |-> ball]
    /\ UNCHANGED <<pc, rate, dt, frames, player, ai, score, ai_timer, ai_target_y,
                   pred, pygame_up, exit_code>>

NextBall ==
    \/ CallUpdate
    \/ CallCollidePaddle
    \/ CallReset

SpecBall == InitBall /\ [][NextBall]_vars

\* C2: an update of a ball whose top was at or above the top wall leaves a
\* non-negative vertical velocity, and an update of a ball whose bottom was
\* at or below the bottom wall leaves a non-positive one.
C2_WallBounceDirection ==
    call.op = "update" =>
        /\ call.before.y <= 0 => ball.vy >= 0
        /\ BallBottom(call.before) >= HEIGHT => ball.vy <= 0

\* C7: after reset(direction) the ball's centre is the screen centre, vel.x
\* is direction * base_speed whatever it was before, and
\* |vel.y| <= 0.35 * base_speed.
C7_Reset ==
    call.op = "reset" =>
        /\ BallCenterX(ball) = WIDTH \div 2
        /\ BallCenterY(ball) = HEIGHT \div 2
        /\ ball.vx = call.direction * BASE_SPEED * FP
        /\ Abs(ball.vy) * 100 <= 35 * BASE_SPEED * FP

\* a reset of a ball that was off centre and faster than the base speed
C7_Witness ==
    /\ call.op = "reset"
    /\ Abs(call.before.vx) > BASE_SPEED * FP
    /\ call.before.x # CenterLeft
    /\ call.before.y # CenterTop
    /\ ball.vx = call.direction * BASE_SPEED * FP

\* C15: update(dt) advances the position by velocity * dt: the x by
\* vel.x * dt in every call, the y by vel.y * dt in a call that brings the
\* ball to neither wall, and such a call leaves the velocity as it was.
C15_FreeFlight ==
    call.op = "update" =>
        LET b == call.before
        IN /\ (ball.x - b.x) * MS * FP = b.vx * call.dt
           /\ (ball.y > 0 /\ BallBottom(ball) < HEIGHT) =>
                /\ (ball.y - b.y) * MS * FP = b.vy * call.dt
                /\ ball.vx = b.vx
                /\ ball.vy = b.vy

\* C18: after any sequence of update, collide_paddle and reset calls the
\* ball lies between the top and the bottom wall, 0 <= top and
\* bottom <= HEIGHT; collide_paddle leaves its vertical position as it was and
\* reset puts it at the centre.
C18_VerticalContainment ==
    /\ 0 <= ball.y
    /\ BallBottom(ball) <= HEIGHT
    /\ call.op = "collide_paddle" => ball.y = call.before.y
    /\ call.op = "reset" => ball.y = CenterTop

\* a second call, an update whose step led beyond a wall, has left the ball
\* on that wall
C18_Witness ==
    /\ call.op = "update"
    /\ call.n > 1
    /\ \/ /\ call.before.y + Trunc(call.before.vy * call.dt, MS * FP) < 0
          /\ ball.y = 0
       \/ /\ call.before.y + Trunc(call.before.vy * call.dt, MS * FP) + BALL_SIZE
               > HEIGHT
          /\ BallBottom(ball) = HEIGHT

\* the longest frame time (ms) clock.tick(FPS) returns at the frame-rate cap
TickMs == MS \div FPS + 1
\* the ball lies entirely before the paddle's near face, in its direction
NearSide(b, p) ==
    \/ b.vx > 0 /\ BallRight(b) <= p.x
    \/ b.vx < 0 /\ b.x >= PaddleRight(p)
\* the ball b, once at a, lies entirely beyond the paddle's far face
FarSide(b, a, p) ==
    \/ b.vx > 0 /\ a.x >= PaddleRight(p)
    \/ b.vx < 0 /\ BallRight(a) <= p.x
VerticalOverlap(b, p) == b.y < PaddleBottom(p) /\ p.y < BallBottom(b)
HorizontalOverlap(b, p) == b.x < PaddleRight(p) /\ p.x < BallRight(b)

\* C20: an update with dt <= 17 ms never takes a ball from entirely before a
\* paddle to entirely beyond it: a ball that has passed the paddle's near
\* face is within the paddle's columns; and a collide_paddle call on a ball
\* within the paddle's columns whose vertical span overlaps the paddle's
\* hits, it turns vel.x round.
C20_NoTunnelling ==
    /\ (call.op = "update" /\ call.dt <= TickMs) =>
         \A p \in PaddleInputs :
            NearSide(call.before, p) =>
               /\ ~FarSide(call.before, ball, p)
               /\ NearSide(ball, p) \/ HorizontalOverlap(ball, p)
    /\ (call.op = "collide_paddle"
          /\ HorizontalOverlap(call.before, call.paddle)
          /\ VerticalOverlap(call.before, call.paddle)) =>
         Sign(ball.vx) = -Sign(call.before.vx)

\* a ball flush against the AI paddle's face at the capped speed has moved
\* into the paddle's columns in a 17 ms frame
C20_Witness ==
    /\ call.op = "update"
    /\ call.dt = TickMs
    /\ call.before.vx = MAX_VX * FP
    /\ BallRight(call.before) = NewAI.x
    /\ ball.x > call.before.x
    /\ HorizontalOverlap(ball, NewAI)

\* ----------------------------------------------------------- SpecPredict
\* A prediction is taken for a ball and the ball is then flown frame by
\* frame with Ball.update, at the frame time of the run, until its centre
\* has reached the predicted-for x.
\* frame times (ms) of a flight
FlightRateSet == {16, 17, 50}

\* ball states the predictor is asked about: leaving the player's paddle, at
\* the centre, beyond the AI paddle's centre; moving left, not moving
\* horizontally (the guarded case), moving right
PredictInputs ==
    [x : {PADDLE_MARGIN + PADDLE_WIDTH, CenterLeft, WIDTH - PADDLE_MARGIN},
     y : {0, 100, CenterTop, HEIGHT - BALL_SIZE},
     vx : {-BASE_SPEED * FP, 0, BASE_SPEED * FP, (BASE_SPEED * 104 * FP) \div 100,
           MAX_VX * FP},
     vy : {-MAX_VY * FP, -BASE_SPEED * MAX_ANGLE, 0, BASE_SPEED * MAX_ANGLE,
           393000, MAX_VY * FP}]

\* the x the AI predicts for (self.ai.rect.centerx), and the player's
TargetXSet == {PaddleCenterX(NewAI), PaddleCenterX(NewPlayer)}

InitPredict ==
    /\ Idle
    /\ rate \in FlightRateSet
    /\ player = NewPlayer
    /\ ai = NewAI
    /\ ball \in PredictInputs
    /\ call = NoCall
    /\ pred = NoPred

\* predicted_y = self._predict_ball_y_at_x(x)
TakePrediction ==
    /\ pred.op = "none"
    /\ \E x \in TargetXSet :
         pred' = [op |-> "predict", x |-> x, y |-> predict_ball_y_at_x(ball, x),
                  from |-> ball, bounces |-> 0]
    /\ UNCHANGED <<pc, rate, dt, frames, player, ai, ball, score, ai_timer,
                   ai_target_y, call, pygame_up, exit_code>>

\* one frame of free flight towards pred.x: self.ball.update(dt)
Fly ==
    /\ pred.op = "predict"
    /\ ball.vx > 0
    /\ BallCenterX(ball) < pred.x
    /\ ball' = Ball_update(ball, rate)
    /\ pred' = [pred EXCEPT
                  !.bounces = IF ball'.vy # ball.vy THEN @ + 1 ELSE @]
    /\ UNCHANGED <<pc, rate, dt, frames, player, ai, score, ai_timer, ai_target_y,
                   call, pygame_up, exit_code>>

NextPredict ==
    \/ TakePrediction
    \/ Fly

SpecPredict == InitPredict /\ [][NextPredict]_vars

\* the ball's centre has reached the x the prediction was taken for
Arrived ==
    /\ pred.op = "predict"
    /\ pred.from.vx > 0
    /\ BallCenterX(pred.from) < pred.x
    /\ BallCenterX(ball) >= pred.x

\* the vertical distance (px) the ball covers in one frame of the flight
FrameTravel == Abs(Trunc(ball.vy * rate, MS * FP)) + 1

\* C8: for a ball moving right that is only deflected by the walls, once or
\* more, the prediction taken before the flight is the ball's centre y when
\* the ball reaches x (to within the distance the ball covers in the frame
\* in which it gets there).
C8_PredictionMatchesFlight ==
    (Arrived /\ pred.bounces >= 1)
    => Abs(BallCenterY(ball) * FP - pred.y) <= FrameTravel * FP

\* s folded into [0, HEIGHT] by reflecting it at 0 and at HEIGHT until it
\* lies between them
RECURSIVE Fold(_)
Fold(s) ==
    IF s < 0 THEN Fold(-s)
    ELSE IF s > HEIGHT * FP THEN Fold(2 * HEIGHT * FP - s)
    ELSE s

\* C9: with vel.x = 0 or a target that is not ahead of the ball the
\* prediction is the ball's centre y; otherwise it is the simulated y
\* reflected at the walls into [0, HEIGHT], HEIGHT + k giving HEIGHT - k for
\* 0 < k <= HEIGHT; it always lies in [0, HEIGHT].
C9_PredictReference ==
    pred.op = "predict" =>
        LET b == pred.from
            s == SimulatedY(b, pred.x)
        IN /\ 0 <= pred.y
           /\ pred.y <= HEIGHT * FP
           /\ (b.vx = 0 \/ ~TimeToXPositive(b, pred.x))
                => pred.y = BallCenterY(b) * FP
           /\ (b.vx # 0 /\ TimeToXPositive(b, pred.x)) =>
                /\ pred.y = Fold(s)
                /\ (HEIGHT * FP < s /\ s <= 2 * HEIGHT * FP)
                     => pred.y = HEIGHT * FP - (s - HEIGHT * FP)

\* a prediction whose simulated y lay beyond the bottom wall
C9_Witness ==
    /\ pred.op = "predict"
    /\ TimeToXPositive(pred.from, pred.x)
    /\ SimulatedY(pred.from, pred.x) > HEIGHT * FP
    /\ SimulatedY(pred.from, pred.x) < 2 * HEIGHT * FP
    /\ pred.y = 2 * HEIGHT * FP - SimulatedY(pred.from, pred.x)

====
